---- MODULE Spec2Model ----
(***************************************************************************)
(* A model of crawler/crawler.py: the paginated scrape-and-persist loop    *)
(* (main, parse_pages, parse_table, upload_to_s3) run against a paginated  *)
(* web view, a local output directory and a remote bucket.                 *)
(*                                                                         *)
(* Text (dates, cell texts, file names) is a sequence of one-character     *)
(* strings, so that str.replace, str.strip, str.format, the string         *)
(* comparison <= and the substring test are computed character by          *)
(* character, as Python computes them.                                     *)
(***************************************************************************)
EXTENDS Integers, Sequences, FiniteSets, TLC

VARIABLES
    args,        \* argparse namespace: [start_date, end_date]; <<>> is a missing --end-date
    pc,          \* position of main / parse_pages
    error,       \* the exception that ended the run, "none" while there is none
    start_date,  \* main's local start_date
    end_date,    \* main's local end_date
    out_dir,     \* whether the out directory exists
    session,     \* whether the webdriver session is open
    loaded,      \* site: the search results of the submitted range are rendered
    noData,      \* site: the submitted range has no rows at all
    numPages,    \* site: number of pages of every view
    shown,       \* site: the page every view's page-number label shows
    clicked,     \* site: a click on the next control is still to be served
    index,       \* main's enumerate index over TAB_VIEWS (1-based here)
    view,        \* the view being crawled
    out_file,    \* the artifact name of the view being crawled
    page,        \* parse_pages' page counter
    parsed,      \* parse_pages' parsed batch of the current page
    handle,      \* the GzipFile open for append, <<>> when none is open
    files,       \* the out directory: artifact name -> sequence of lines
    s3,          \* the bucket: object key -> sequence of lines
    rerun,       \* whether this is a second execution of the script over the same out directory
    hist,        \* observation of this run, per view: counts of the steps taken
    content,     \* input of parse_table when applied on its own
    data         \* result of parse_table when applied on its own

vars == <<args, pc, error, start_date, end_date, out_dir, session, loaded, noData,
          numPages, shown, clicked, index, view, out_file, page, parsed, handle,
          files, s3, rerun, hist, content, data>>

----------------------------------------------------------------------------
(* Bounds of the model *)

MaxPages == 3
MaxRows == 2
MaxCells == 2
MaxLabel == 110

----------------------------------------------------------------------------
(* Text *)

Digits == <<"0", "1", "2", "3", "4", "5", "6", "7", "8", "9">>

IsDigit(c) == \E i \in 1..10 : Digits[i] = c

DigitVal(c) == (CHOOSE i \in 1..10 : Digits[i] = c) - 1

\* The code points of the characters the inputs use (Python compares str by code point).
Ord(c) ==
    IF c = " " THEN 32
    ELSE IF c = "-" THEN 45
    ELSE IF c = "." THEN 46
    ELSE IF IsDigit(c) THEN 48 + DigitVal(c)
    ELSE 97

\* NumVal(s): int(s) of a digit string
RECURSIVE NumVal(_)
NumVal(s) ==
    IF s = <<>> THEN 0
    ELSE 10 * NumVal(SubSeq(s, 1, Len(s) - 1)) + DigitVal(s[Len(s)])

\* Str(n): str(n) of a non-negative int
RECURSIVE Str(_)
Str(n) ==
    IF n < 10 THEN <<Digits[n + 1]>>
    ELSE Str(n \div 10) \o <<Digits[(n % 10) + 1]>>

\* a in b for str
Contains(b, a) ==
    \E i \in 0..(Len(b) - Len(a)) : SubSeq(b, i + 1, i + Len(a)) = a

\* a <= b for str: lexicographic by code point
RECURSIVE StrLe(_, _)
StrLe(a, b) ==
    IF a = <<>> THEN TRUE
    ELSE IF b = <<>> THEN FALSE
    ELSE IF Ord(Head(a)) < Ord(Head(b)) THEN TRUE
    ELSE IF Ord(Head(a)) > Ord(Head(b)) THEN FALSE
    ELSE StrLe(Tail(a), Tail(b))

\* s.replace(".", "")
Replace(s) == SelectSeq(s, LAMBDA c : c # ".")

RECURSIVE LStrip(_)
LStrip(s) ==
    IF s = <<>> THEN s
    ELSE IF Head(s) = " " THEN LStrip(Tail(s))
    ELSE s

RECURSIVE RStrip(_)
RStrip(s) ==
    IF s = <<>> THEN s
    ELSE IF s[Len(s)] = " " THEN RStrip(SubSeq(s, 1, Len(s) - 1))
    ELSE s

\* s.strip()
Strip(s) == RStrip(LStrip(s))

----------------------------------------------------------------------------
(* datetime.strptime(s, "%d.%m.%Y") *)

DotPos(s) == {i \in 1..Len(s) : s[i] = "."}

AllDigits(s) == \A i \in 1..Len(s) : IsDigit(s[i])

DayField(s) == SubSeq(s, 1, (CHOOSE i \in DotPos(s) : \A j \in DotPos(s) : i <= j) - 1)

MonthField(s) ==
    SubSeq(s, (CHOOSE i \in DotPos(s) : \A j \in DotPos(s) : i <= j) + 1,
              (CHOOSE i \in DotPos(s) : \A j \in DotPos(s) : i >= j) - 1)

YearField(s) ==
    SubSeq(s, (CHOOSE i \in DotPos(s) : \A j \in DotPos(s) : i >= j) + 1, Len(s))

IsLeap(y) == (y % 4 = 0 /\ y % 100 # 0) \/ y % 400 = 0

DaysInMonth(m, y) ==
    IF m = 2 THEN (IF IsLeap(y) THEN 29 ELSE 28)
    ELSE IF m \in {4, 6, 9, 11} THEN 30
    ELSE 31

\* Whether strptime returns (TRUE) or raises ValueError (FALSE).
Strptime(s) ==
    /\ Cardinality(DotPos(s)) = 2
    /\ Len(DayField(s)) \in 1..2 /\ AllDigits(DayField(s))
    /\ Len(MonthField(s)) \in 1..2 /\ AllDigits(MonthField(s))
    /\ Len(YearField(s)) = 4 /\ AllDigits(YearField(s))
    /\ NumVal(MonthField(s)) \in 1..12
    /\ NumVal(YearField(s)) >= 1
    /\ NumVal(DayField(s)) \in 1..DaysInMonth(NumVal(MonthField(s)), NumVal(YearField(s)))

\* The calendar date strptime returns, as <<year, month, day>>.
DateOf(s) == <<NumVal(YearField(s)), NumVal(MonthField(s)), NumVal(DayField(s))>>

\* a is a later calendar date than b
Later(a, b) ==
    \/ a[1] > b[1]
    \/ a[1] = b[1] /\ a[2] > b[2]
    \/ a[1] = b[1] /\ a[2] = b[2] /\ a[3] > b[3]

----------------------------------------------------------------------------
(* Constants of the script *)

TAB_VIEWS == << <<"G", "e", "n", "e", "l">>, <<"D", "a", "g", "i", "l", "i", "m">> >>

Views == {TAB_VIEWS[i] : i \in 1..Len(TAB_VIEWS)}

\* OutFileName with the two dates run together.
OutFileName_noHyphen(sd, ed, v) ==
    Replace(sd) \o Replace(ed) \o <<"-">> \o v
        \o <<".", "j", "s", "o", "n", "l", ".", "g", "z">>

\* "{}-{}-{}.jsonl.gz".format(start_date.replace(".", ""), end_date.replace(".", ""), view)
OutFileName(sd, ed, v) ==
    Replace(sd) \o <<"-">> \o Replace(ed) \o <<"-">> \o v
        \o <<".", "j", "s", "o", "n", "l", ".", "g", "z">>

----------------------------------------------------------------------------
(* parse_table *)

\* [ele.text.strip() for ele in row.find_all(tag)]
CellTexts(row, tag) ==
    LET cells == SelectSeq(row, LAMBDA c : c.tag = tag)
    IN  [i \in 1..Len(cells) |-> Strip(cells[i].text)]

Min(a, b) == IF a < b THEN a ELSE b

\* dict(zip(header, cols)): pairs up to the shorter length, a repeated key keeps
\* its last value.
ZipDict(header, cols) ==
    LET n == Min(Len(header), Len(cols))
    IN  [k \in {header[i] : i \in 1..n} |->
            cols[CHOOSE i \in 1..n : header[i] = k /\ \A j \in 1..n : header[j] = k => j <= i]]

\* parse_table that does not pop the header row off rows.
parse_table_keepsHeader(c) ==
    IF ~c.tbody THEN [err |-> "AttributeError", data |-> <<>>]
    ELSE IF c.rows = <<>> THEN [err |-> "IndexError", data |-> <<>>]
    ELSE LET header == CellTexts(c.rows[1], "th")
             rows == c.rows
         IN  [err |-> "none",
              data |-> [i \in 1..Len(rows) |-> ZipDict(header, CellTexts(rows[i], "td"))]]

\* content: [tbody |-> whether the markup holds a tbody, rows |-> its tr elements,
\* each a sequence of cells [tag, text]].  The result is what the call returns
\* (err = "none") or the exception it raises.
parse_table(c) ==
    IF ~c.tbody THEN [err |-> "AttributeError", data |-> <<>>]
    ELSE IF c.rows = <<>> THEN [err |-> "IndexError", data |-> <<>>]
    ELSE LET header == CellTexts(c.rows[1], "th")
             rows == Tail(c.rows)
         IN  [err |-> "none",
              data |-> [i \in 1..Len(rows) |-> ZipDict(header, CellTexts(rows[i], "td"))]]

----------------------------------------------------------------------------
(* The site *)

Td(text) == [tag |-> "td", text |-> text]
Th(text) == [tag |-> "th", text |-> text]

\* What the grid shows before the search results are rendered.
LandingDate == <<"3", "1", ".", "1", "2", ".", "2", "0", "1", "9">>

\* The date the grid's rows carry: that of the rendered range, or the landing
\* page's while the results are not rendered.
GridDate == IF loaded THEN end_date ELSE LandingDate

\* innerHTML of the grid of view v showing page k of the rows of date d: a header
\* row and two data rows; the first cell of a data row is the date.
Grid(d, v, k) ==
    [tbody |-> TRUE,
     rows |-> << <<Th(<<"T", "a", "r", "i", "h">>), Th(<<" ", "F", "o", "n", " ">>)>>,
                 <<Td(d), Td(v \o <<"-">> \o Str(k) \o <<"a">>)>>,
                 <<Td(d), Td(<<" ">> \o v \o <<"-">> \o Str(k) \o <<"b">>)>> >>]

\* innerHTML of the grid of view v while its label shows page k
PageContent(v, k) == Grid(GridDate, v, k)

\* driver.find_elements_by_id(NEXT_ID(view)) is non-empty
HasNextButton(v) == shown[v] < numPages[v]

\* text of the element PAGE_ID(view)
PageLabel(v) == Str(shown[v])

\* NO_DATA_TEXT in driver.page_source
NoDataText == loaded /\ noData

----------------------------------------------------------------------------
(* Inputs *)

D0101 == <<"0", "1", ".", "0", "1", ".", "2", "0", "2", "0">>
D0501 == <<"0", "5", ".", "0", "1", ".", "2", "0", "2", "0">>
D0201 == <<"0", "2", ".", "0", "1", ".", "2", "0", "2", "0">>
D0102 == <<"0", "1", ".", "0", "2", ".", "2", "0", "2", "0">>
DIso == <<"2", "0", "2", "0", "-", "0", "1", "-", "0", "5">>
D3002 == <<"3", "0", ".", "0", "2", ".", "2", "0", "2", "0">>

\* Command lines: --start-date and --end-date (<<>> when --end-date is not given).
\* Ranges in calendar order and not, ranges whose text order differs from their
\* calendar order, a date in another format and one that is no calendar date.
ArgInputs ==
    { [start_date |-> D0101, end_date |-> D0501],
      [start_date |-> D0101, end_date |-> <<>>],
      [start_date |-> D0501, end_date |-> D0101],
      [start_date |-> D0102, end_date |-> D0201],
      [start_date |-> D0201, end_date |-> D0102],
      [start_date |-> DIso, end_date |-> <<>>],
      [start_date |-> D0101, end_date |-> D3002] }

\* The dates a grid can carry, and what parse_table returns for each grid the
\* site can serve.
GridDates ==
    {LandingDate} \cup {IF a.end_date # <<>> THEN a.end_date ELSE a.start_date : a \in ArgInputs}

ParsedGrids ==
    [d \in GridDates |-> [v \in Views |-> [k \in 1..MaxPages |-> parse_table(Grid(d, v, k))]]]

EmptyMap == [n \in {} |-> <<>>]

NoContent == [tbody |-> FALSE, rows |-> <<>>]

NoResult == [err |-> "unset", data |-> <<>>]

ZeroHist ==
    [v \in Views |-> [selects |-> 0, fetches |-> 0, appends |-> 0, queries |-> 0,
                      advances |-> 0, uploads |-> 0, base |-> <<>>, exhausted |-> FALSE]]

\* The contents of a file of the out directory, <<>> when it does not exist.
FileLines(f) == IF f \in DOMAIN files THEN files[f] ELSE <<>>

----------------------------------------------------------------------------
(* main *)

Init ==
    /\ args \in ArgInputs
    /\ pc = "start"
    /\ error = "none"
    /\ start_date = <<>>
    /\ end_date = <<>>
    /\ out_dir = FALSE
    /\ session = FALSE
    /\ loaded = FALSE
    /\ noData \in BOOLEAN
    /\ numPages \in [Views -> 1..MaxPages]
    /\ shown = [v \in Views |-> 1]
    /\ clicked = <<>>
    /\ index = 0
    /\ view = <<>>
    /\ out_file = <<>>
    /\ page = 0
    /\ parsed = <<>>
    /\ handle = <<>>
    /\ files = EmptyMap
    /\ s3 = EmptyMap
    /\ rerun = FALSE
    /\ hist = ZeroHist
    /\ content = NoContent
    /\ data = NoResult

\* An exception leaves main: the with block closes the session, the process exits.
Raise(e) ==
    /\ error' = e
    /\ pc' = "error"
    /\ session' = FALSE

\* Lines 168-178: end_date defaults to start_date, both must parse, start <= end.
Validate ==
    /\ pc = "start"
    /\ start_date' = args.start_date
    /\ end_date' = IF args.end_date # <<>> THEN args.end_date ELSE args.start_date
    /\ IF ~(Strptime(start_date') /\ Strptime(end_date'))
       THEN Raise("ValueError")
       ELSE IF ~StrLe(start_date', end_date')
       THEN Raise("AssertionError")
       ELSE pc' = "mkdir" /\ UNCHANGED <<error, session>>
    /\ UNCHANGED <<args, out_dir, loaded, noData, numPages, shown, clicked, index, view,
                   out_file, page, parsed, handle, files, s3, rerun, hist, content, data>>

\* Lines 181-183
MakeOutDir ==
    /\ pc = "mkdir"
    /\ out_dir' = TRUE
    /\ pc' = "connect"
    /\ UNCHANGED <<args, error, start_date, end_date, session, loaded, noData, numPages,
                   shown, clicked, index, view, out_file, page, parsed, handle, files, s3,
                   rerun, hist, content, data>>

\* Lines 189-191: a new browser session on the landing page.
Connect ==
    /\ pc = "connect"
    /\ session' = TRUE
    /\ loaded' = FALSE
    /\ shown' = [v \in Views |-> 1]
    /\ clicked' = <<>>
    /\ pc' = "submit"
    /\ UNCHANGED <<args, error, start_date, end_date, out_dir, noData, numPages, index,
                   view, out_file, page, parsed, handle, files, s3, rerun, hist, content,
                   data>>

\* Lines 192-194: both dates entered, the search button clicked.
SubmitRange ==
    /\ pc = "submit"
    /\ pc' = "sleep"
    /\ UNCHANGED <<args, error, start_date, end_date, out_dir, session, loaded, noData,
                   numPages, shown, clicked, index, view, out_file, page, parsed, handle,
                   files, s3, rerun, hist, content, data>>

\* The site renders the results of the search while the script sleeps.  Results
\* that have not rendered when the sleep ends stay unrendered for the rest of the
\* run: the grids keep showing what the page showed before the search.
SiteRendersResults ==
    /\ pc = "sleep"
    /\ ~loaded
    /\ loaded' = TRUE
    /\ UNCHANGED <<args, pc, error, start_date, end_date, out_dir, session, noData,
                   numPages, shown, clicked, index, view, out_file, page, parsed, handle,
                   files, s3, rerun, hist, content, data>>

\* CheckNoData that never returns early.
CheckNoData_ignoresText ==
    /\ pc = "sleep"
    /\ pc' = "views" /\ session' = session /\ index' = 1
    /\ UNCHANGED <<args, error, start_date, end_date, out_dir, loaded, noData, numPages,
                   shown, clicked, view, out_file, page, parsed, handle, files, s3, rerun,
                   hist, content, data>>

\* Lines 195-200: the sleep ends; return if the page holds the no-data text,
\* otherwise start the loop over TAB_VIEWS.
CheckNoData ==
    /\ pc = "sleep"
    /\ IF NoDataText
       THEN pc' = "done" /\ session' = FALSE /\ index' = index
       ELSE pc' = "views" /\ session' = session /\ index' = 1
    /\ UNCHANGED <<args, error, start_date, end_date, out_dir, loaded, noData, numPages,
                   shown, clicked, view, out_file, page, parsed, handle, files, s3, rerun,
                   hist, content, data>>

\* SelectView with a page counter shared by the views: it is set to 1 only once.
SelectView_keepsPage ==
    /\ pc = "views"
    /\ index <= Len(TAB_VIEWS)
    /\ view' = TAB_VIEWS[index]
    /\ out_file' = OutFileName(start_date, end_date, view')
    /\ page' = IF page = 0 THEN 1 ELSE page
    /\ hist' = [hist EXCEPT ![view'].selects = @ + 1,
                            ![view'].base = FileLines(out_file')]
    /\ pc' = "fetch"
    /\ UNCHANGED <<args, error, start_date, end_date, out_dir, session, loaded, noData,
                   numPages, shown, clicked, index, parsed, handle, files, s3, rerun,
                   content, data>>

\* Lines 200-213 and 100-102: the next view's artifact name, its tab clicked,
\* parse_pages entered with page = 1.
SelectView ==
    /\ pc = "views"
    /\ index <= Len(TAB_VIEWS)
    /\ view' = TAB_VIEWS[index]
    /\ out_file' = OutFileName(start_date, end_date, view')
    /\ page' = 1
    /\ hist' = [hist EXCEPT ![view'].selects = @ + 1,
                            ![view'].base = FileLines(out_file')]
    /\ pc' = "fetch"
    /\ UNCHANGED <<args, error, start_date, end_date, out_dir, session, loaded, noData,
                   numPages, shown, clicked, index, parsed, handle, files, s3, rerun,
                   content, data>>

\* Lines 215-216: TAB_VIEWS is exhausted, the session closes, main returns.
Finish ==
    /\ pc = "views"
    /\ index > Len(TAB_VIEWS)
    /\ session' = FALSE
    /\ pc' = "done"
    /\ UNCHANGED <<args, error, start_date, end_date, out_dir, loaded, noData, numPages,
                   shown, clicked, index, view, out_file, page, parsed, handle, files, s3,
                   rerun, hist, content, data>>

----------------------------------------------------------------------------
(* parse_pages *)

\* Lines 104-109: the grid's innerHTML is read and parsed.
FetchAndParse ==
    /\ pc = "fetch"
    /\ LET r == ParsedGrids[GridDate][view][shown[view]]
       IN  IF r.err = "none"
           THEN parsed' = r.data /\ pc' = "write" /\ UNCHANGED <<error, session>>
           ELSE parsed' = parsed /\ Raise(r.err)
    /\ hist' = [hist EXCEPT ![view].fetches = @ + 1]
    /\ UNCHANGED <<args, start_date, end_date, out_dir, loaded, noData, numPages, shown,
                   clicked, index, view, out_file, page, handle, files, s3, rerun, content,
                   data>>

\* Lines 104-108: the grid's innerHTML holds no tbody (the site served the grid
\* without its table); parse_table raises and the exception leaves main.
FetchBrokenMarkup ==
    /\ pc = "fetch"
    /\ Raise(parse_table(NoContent).err)
    /\ hist' = [hist EXCEPT ![view].fetches = @ + 1]
    /\ UNCHANGED <<args, start_date, end_date, out_dir, loaded, noData, numPages, shown,
                   clicked, index, view, out_file, page, parsed, handle, files, s3, rerun,
                   content, data>>

\* tabs = {}; tabs[view] = parsed; json.dumps(tabs) + "\n": one line per page.
JsonLine(v, batch) == [k \in {v} |-> batch]

\* WriteBatch whose written line never reaches the file.
WriteBatch_unflushed ==
    /\ pc = "write"
    /\ handle' = out_file
    /\ files' = [f \in DOMAIN files \cup {out_file} |-> FileLines(f)]
    /\ hist' = [hist EXCEPT ![view].appends = @ + 1]
    /\ pc' = "close"
    /\ UNCHANGED <<args, error, start_date, end_date, out_dir, session, loaded, noData,
                   numPages, shown, clicked, index, view, out_file, page, parsed, s3, rerun,
                   content, data>>

\* WriteBatch that opens the artifact with mode "w".
WriteBatch_truncates ==
    /\ pc = "write"
    /\ handle' = out_file
    /\ files' = [f \in DOMAIN files \cup {out_file} |->
                    IF f = out_file
                    THEN <<JsonLine(view, parsed)>>
                    ELSE files[f]]
    /\ hist' = [hist EXCEPT ![view].appends = @ + 1]
    /\ pc' = "close"
    /\ UNCHANGED <<args, error, start_date, end_date, out_dir, session, loaded, noData,
                   numPages, shown, clicked, index, view, out_file, page, parsed, s3, rerun,
                   content, data>>

\* WriteBatch that writes every row of the batch as a line of its own.
WriteBatch_perRow ==
    /\ pc = "write"
    /\ handle' = out_file
    /\ files' = [f \in DOMAIN files \cup {out_file} |->
                    IF f = out_file
                    THEN FileLines(out_file)
                            \o [i \in 1..Len(parsed) |-> JsonLine(view, <<parsed[i]>>)]
                    ELSE files[f]]
    /\ hist' = [hist EXCEPT ![view].appends = @ + 1]
    /\ pc' = "close"
    /\ UNCHANGED <<args, error, start_date, end_date, out_dir, session, loaded, noData,
                   numPages, shown, clicked, index, view, out_file, page, parsed, s3, rerun,
                   content, data>>

\* Lines 111-114: the artifact is opened for append (created when missing) and the
\* page's line is written.
WriteBatch ==
    /\ pc = "write"
    /\ handle' = out_file
    /\ files' = [f \in DOMAIN files \cup {out_file} |->
                    IF f = out_file
                    THEN Append(FileLines(out_file), JsonLine(view, parsed))
                    ELSE files[f]]
    /\ hist' = [hist EXCEPT ![view].appends = @ + 1]
    /\ pc' = "close"
    /\ UNCHANGED <<args, error, start_date, end_date, out_dir, session, loaded, noData,
                   numPages, shown, clicked, index, view, out_file, page, parsed, s3, rerun,
                   content, data>>

\* Line 111: GzipFile(out_file, "a") raises OSError; nothing is written.
WriteFails ==
    /\ pc = "write"
    /\ Raise("OSError")
    /\ UNCHANGED <<args, start_date, end_date, out_dir, loaded, noData, numPages, shown,
                   clicked, index, view, out_file, page, parsed, handle, files, s3, rerun,
                   hist, content, data>>

\* CloseFile that goes on without closing the file.
CloseFile_leavesOpen ==
    /\ pc = "close"
    /\ handle' = handle
    /\ pc' = "next"
    /\ UNCHANGED <<args, error, start_date, end_date, out_dir, session, loaded, noData,
                   numPages, shown, clicked, index, view, out_file, page, parsed, files, s3,
                   rerun, hist, content, data>>

\* Line 111-114: the with block is left, the file is closed.
CloseFile ==
    /\ pc = "close"
    /\ handle' = <<>>
    /\ pc' = "next"
    /\ UNCHANGED <<args, error, start_date, end_date, out_dir, session, loaded, noData,
                   numPages, shown, clicked, index, view, out_file, page, parsed, files, s3,
                   rerun, hist, content, data>>

\* FindNext that leaves the loop whether or not the next control is there.
FindNext_alwaysBreaks ==
    /\ pc = "next"
    /\ clicked' = clicked
    /\ pc' = "upload"
    /\ hist' = [hist EXCEPT ![view].queries = @ + 1, ![view].exhausted = TRUE]
    /\ UNCHANGED <<args, error, start_date, end_date, out_dir, session, loaded, noData,
                   numPages, shown, index, view, out_file, page, parsed, handle, files, s3,
                   rerun, content, data>>

\* Lines 116-122 and 127-130: the next control is looked up; it is clicked when
\* present, otherwise the loop is left and parse_pages returns.
FindNext ==
    /\ pc = "next"
    /\ IF HasNextButton(view)
       THEN /\ clicked' = view
            /\ pc' = "wait"
            /\ hist' = [hist EXCEPT ![view].queries = @ + 1]
       ELSE /\ clicked' = clicked
            /\ pc' = "upload"
            /\ hist' = [hist EXCEPT ![view].queries = @ + 1, ![view].exhausted = TRUE]
    /\ UNCHANGED <<args, error, start_date, end_date, out_dir, session, loaded, noData,
                   numPages, shown, index, view, out_file, page, parsed, handle, files, s3,
                   rerun, content, data>>

\* The site serves the click: the view shows its next page.
SiteServesClick ==
    /\ session
    /\ clicked # <<>>
    /\ shown' = [shown EXCEPT ![clicked] = @ + 1]
    /\ clicked' = <<>>
    /\ UNCHANGED <<args, pc, error, start_date, end_date, out_dir, session, loaded, noData,
                   numPages, index, view, out_file, page, parsed, handle, files, s3, rerun,
                   hist, content, data>>

\* The wait's condition with the current page's number instead of the next one's.
NextPageShown_currentPage == Contains(PageLabel(view), Str(page))

\* EC.text_to_be_present_in_element((By.ID, PAGE_ID(view)), str(page + 1))
NextPageShown == Contains(PageLabel(view), Str(page + 1))

\* WaitConfirmed that adds 2 to page.
WaitConfirmed_skipsPage ==
    /\ pc = "wait"
    /\ NextPageShown
    /\ page' = page + 2
    /\ hist' = [hist EXCEPT ![view].advances = @ + 1]
    /\ pc' = "fetch"
    /\ UNCHANGED <<args, error, start_date, end_date, out_dir, session, loaded, noData,
                   numPages, shown, clicked, index, view, out_file, parsed, handle, files,
                   s3, rerun, content, data>>

\* Lines 124-126 and 129: wait.until returns, page += 1.
WaitConfirmed ==
    /\ pc = "wait"
    /\ NextPageShown
    /\ page' = page + 1
    /\ hist' = [hist EXCEPT ![view].advances = @ + 1]
    /\ pc' = "fetch"
    /\ UNCHANGED <<args, error, start_date, end_date, out_dir, session, loaded, noData,
                   numPages, shown, clicked, index, view, out_file, parsed, handle, files,
                   s3, rerun, content, data>>

\* WaitTimesOut that waits again instead of raising.
WaitTimesOut_waitsAgain ==
    /\ pc = "wait"
    /\ ~NextPageShown
    /\ pc' = "wait"
    /\ UNCHANGED <<args, error, session, start_date, end_date, out_dir, loaded, noData,
                   numPages, shown, clicked, index, view, out_file, page, parsed, handle,
                   files, s3, rerun, hist, content, data>>

\* WaitTimesOut whose exception is caught and recorded, the run going on with
\* the next view.
WaitTimesOut_nextView ==
    /\ pc = "wait"
    /\ ~NextPageShown
    /\ error' = "TimeoutException"
    /\ pc' = "views"
    /\ index' = index + 1
    /\ UNCHANGED <<args, start_date, end_date, out_dir, session, loaded, noData, numPages,
                   shown, clicked, view, out_file, page, parsed, handle, files, s3, rerun,
                   hist, content, data>>

\* Lines 124-126: the label has not shown the next page within the wait's 60
\* seconds; wait.until raises TimeoutException.
WaitTimesOut ==
    /\ pc = "wait"
    /\ ~NextPageShown
    /\ Raise("TimeoutException")
    /\ UNCHANGED <<args, start_date, end_date, out_dir, loaded, noData, numPages, shown,
                   clicked, index, view, out_file, page, parsed, handle, files, s3, rerun,
                   hist, content, data>>

----------------------------------------------------------------------------
(* upload_to_s3 *)

\* Upload after which the for loop does not move on to the next view.
Upload_keepsIndex ==
    /\ pc = "upload"
    /\ s3' = [k \in DOMAIN s3 \cup {out_file} |->
                 IF k = out_file THEN FileLines(out_file) ELSE s3[k]]
    /\ hist' = [hist EXCEPT ![view].uploads = @ + 1]
    /\ index' = index
    /\ pc' = "views"
    /\ UNCHANGED <<args, error, start_date, end_date, out_dir, session, loaded, noData,
                   numPages, shown, clicked, view, out_file, page, parsed, handle, files,
                   rerun, content, data>>

\* Lines 133-140 and the for loop's step: the artifact is stored under its basename.
Upload ==
    /\ pc = "upload"
    /\ s3' = [k \in DOMAIN s3 \cup {out_file} |->
                 IF k = out_file THEN FileLines(out_file) ELSE s3[k]]
    /\ hist' = [hist EXCEPT ![view].uploads = @ + 1]
    /\ index' = index + 1
    /\ pc' = "views"
    /\ UNCHANGED <<args, error, start_date, end_date, out_dir, session, loaded, noData,
                   numPages, shown, clicked, view, out_file, page, parsed, handle, files,
                   rerun, content, data>>

\* UploadFails that removes the local artifact before the exception leaves.
UploadFails_removesFile ==
    /\ pc = "upload"
    /\ Raise("S3UploadFailedError")
    /\ files' = [f \in DOMAIN files \ {out_file} |-> files[f]]
    /\ UNCHANGED <<args, start_date, end_date, out_dir, loaded, noData, numPages, shown,
                   clicked, index, view, out_file, page, parsed, handle, s3, rerun, hist,
                   content, data>>

\* Line 139: upload_file raises.
UploadFails ==
    /\ pc = "upload"
    /\ Raise("S3UploadFailedError")
    /\ UNCHANGED <<args, start_date, end_date, out_dir, loaded, noData, numPages, shown,
                   clicked, index, view, out_file, page, parsed, handle, files, s3, rerun,
                   hist, content, data>>

----------------------------------------------------------------------------
(* The script is started again with the same arguments; the out directory and *)
(* the bucket keep what the first execution left.                              *)

Rerun ==
    /\ pc \in {"done", "error"}
    /\ ~rerun
    /\ rerun' = TRUE
    /\ pc' = "start"
    /\ error' = "none"
    /\ start_date' = <<>>
    /\ end_date' = <<>>
    /\ loaded' = FALSE
    /\ shown' = [v \in Views |-> 1]
    /\ clicked' = <<>>
    /\ index' = 0
    /\ view' = <<>>
    /\ out_file' = <<>>
    /\ page' = 0
    /\ parsed' = <<>>
    /\ hist' = ZeroHist
    /\ UNCHANGED <<args, out_dir, session, noData, numPages, handle, files, s3, content,
                   data>>

Next ==
    \/ Validate
    \/ MakeOutDir
    \/ Connect
    \/ SubmitRange
    \/ SiteRendersResults
    \/ CheckNoData
    \/ SelectView
    \/ Finish
    \/ FetchAndParse
    \/ FetchBrokenMarkup
    \/ WriteBatch
    \/ WriteFails
    \/ CloseFile
    \/ FindNext
    \/ SiteServesClick
    \/ WaitConfirmed
    \/ WaitTimesOut
    \/ Upload
    \/ UploadFails
    \/ Rerun

Spec == Init /\ [][Next]_vars

\* A step of the script itself: everything but the site's own steps and a new
\* start of the script.
ProgramStep ==
    \/ Validate
    \/ MakeOutDir
    \/ Connect
    \/ SubmitRange
    \/ CheckNoData
    \/ SelectView
    \/ Finish
    \/ FetchAndParse
    \/ WriteBatch
    \/ CloseFile
    \/ FindNext
    \/ WaitConfirmed
    \/ WaitTimesOut
    \/ Upload

\* The interpreter keeps running the script: while a step of the script is
\* possible one is taken (the sleep ends, wait.until returns or times out).  The
\* site and the failures of the file system and of the bucket are under no such
\* obligation.
SpecLive == Init /\ [][Next]_vars /\ WF_vars(ProgramStep)

----------------------------------------------------------------------------
(* parse_table and the artifact name applied on their own, to inputs drawn  *)
(* from bounded sets.                                                        *)

General == <<"g", "e", "n", "e", "r", "a", "l">>

HeaderCells == {Th(<<"a">>), Th(<<" ", "a">>), Th(<<"b">>)}

DataCells == {Td(<<"x">>), Td(<<" ", "y", " ">>)}

SeqsUpTo(S, n) == UNION {[1..k -> S] : k \in 0..n}

\* Markup with no tbody, a tbody with no tr, and rows that mix th and td cells.
OddTables ==
    { NoContent,
      [tbody |-> TRUE, rows |-> <<>>],
      [tbody |-> TRUE, rows |-> << <<Th(<<"a">>), Td(<<"z">>)>>, <<Td(<<"x">>), Th(<<"h">>)>> >>] }

\* A header row of up to MaxCells th cells and up to MaxRows data rows of up to
\* MaxCells td cells each.
Tables ==
    {[tbody |-> TRUE, rows |-> <<h>> \o d] :
        h \in SeqsUpTo(HeaderCells, MaxCells),
        d \in SeqsUpTo(SeqsUpTo(DataCells, MaxCells), MaxRows)}
    \cup OddTables

NameDates == {D0101, D0501, D0201, D0102}

InitFn ==
    /\ args = [start_date |-> <<>>, end_date |-> <<>>]
    /\ \/ /\ pc = "parse_table"
          /\ content \in Tables
          /\ start_date = <<>> /\ end_date = <<>> /\ view = <<>>
       \/ /\ pc = "format"
          /\ content = NoContent
          /\ start_date \in NameDates /\ end_date \in NameDates
          /\ view \in Views \cup {General}
    /\ error = "none"
    /\ out_dir = FALSE
    /\ session = FALSE
    /\ loaded = FALSE
    /\ noData = FALSE
    /\ numPages = [v \in Views |-> 1]
    /\ shown = [v \in Views |-> 1]
    /\ clicked = <<>>
    /\ index = 0
    /\ out_file = <<>>
    /\ page = 0
    /\ parsed = <<>>
    /\ handle = <<>>
    /\ files = EmptyMap
    /\ s3 = EmptyMap
    /\ rerun = FALSE
    /\ hist = ZeroHist
    /\ data = NoResult

\* Lines 83-95: data = parse_table(content)
CallParseTable ==
    /\ pc = "parse_table"
    /\ data = NoResult
    /\ data' = parse_table(content)
    /\ UNCHANGED <<args, pc, error, start_date, end_date, out_dir, session, loaded, noData,
                   numPages, shown, clicked, index, view, out_file, page, parsed, handle,
                   files, s3, rerun, hist, content>>

\* Lines 202-207: out_file's basename
CallFormat ==
    /\ pc = "format"
    /\ out_file = <<>>
    /\ out_file' = OutFileName(start_date, end_date, view)
    /\ UNCHANGED <<args, pc, error, start_date, end_date, out_dir, session, loaded, noData,
                   numPages, shown, clicked, index, view, page, parsed, handle, files, s3,
                   rerun, hist, content, data>>

NextFn ==
    \/ CallParseTable
    \/ CallFormat

SpecFn == InitFn /\ [][NextFn]_vars

----------------------------------------------------------------------------
(* Properties *)

InLoop == pc \in {"fetch", "write", "close", "next", "wait"}

\* The artifact of view v in this run.
ArtifactOf(v) == OutFileName(start_date, end_date, v)

\* The lines a crawl of pages 1..n of view v appends.
Batches(v, n) == [k \in 1..n |-> JsonLine(v, parse_table(PageContent(v, k)).data)]

ThCount(row) == Len(SelectSeq(row, LAMBDA c : c.tag = "th"))
TdCount(row) == Len(SelectSeq(row, LAMBDA c : c.tag = "td"))

\* One header row of N th cells followed by data rows of N td cells each.
WellFormed(c) ==
    /\ c.tbody
    /\ c.rows # <<>>
    /\ ThCount(c.rows[1]) = Len(c.rows[1])
    /\ \A i \in 2..Len(c.rows) :
          TdCount(c.rows[i]) = Len(c.rows[i]) /\ Len(c.rows[i]) = Len(c.rows[1])

\* Some data row has fewer or more cells than the header has columns.
Mismatched(c) ==
    /\ c.tbody
    /\ c.rows # <<>>
    /\ \E i \in 2..Len(c.rows) : TdCount(c.rows[i]) # ThCount(c.rows[1])

HeaderKeys(c) == {Strip(c.rows[1][j].text) : j \in 1..Len(c.rows[1])}

\* C1: when the loop of a view with N pages has ended without a failure, it has
\* appended exactly N batches, looked for the next control exactly N times and
\* advanced exactly N-1 times, the artifact is N lines longer than when the view
\* was selected and is closed; nothing of this changes in the rest of the run.
C1_LoopCounts ==
    \A v \in Views :
        hist[v].exhausted =>
            /\ hist[v].appends = numPages[v]
            /\ hist[v].queries = numPages[v]
            /\ hist[v].advances = numPages[v] - 1
            /\ Len(FileLines(ArtifactOf(v))) = Len(hist[v].base) + numPages[v]
            /\ handle # ArtifactOf(v)

C1_Witness ==
    \E v \in Views :
        /\ hist[v].exhausted
        /\ numPages[v] = 3
        /\ hist[v].appends = 3
        /\ pc = "done"

\* C2: when the page holds the no-data text after the search, the run returns
\* normally: no view was selected, nothing fetched, appended or uploaded, no file
\* is open, and a first run leaves the out directory and the bucket empty.
C2_NoDataReturn ==
    (loaded /\ noData /\ pc # "sleep") =>
        /\ pc = "done"
        /\ error = "none"
        /\ hist = ZeroHist
        /\ handle = <<>>
        /\ ~session
        /\ (~rerun => files = EmptyMap /\ s3 = EmptyMap)

C2_Witness ==
    /\ loaded /\ noData /\ pc = "done"
    /\ ~Later(DateOf(start_date), DateOf(end_date))

\* C3 as stated: after a timeout of the advance from page p the artifact holds
\* exactly the batches of pages 1..p.
C3_ExactlyThisRun ==
    error = "TimeoutException" => FileLines(out_file) = Batches(view, page)

\* C3 amended: after a timeout of the advance from page p the run has ended in
\* TimeoutException after one click per page (no retry), and the artifact holds
\* what it held when the view was selected followed by exactly the batches of
\* pages 1..p; on a first run that is exactly these batches.
C3_TimeoutKeepsBatches ==
    error = "TimeoutException" =>
        /\ pc = "error"
        /\ hist[view].queries = page
        /\ hist[view].advances = page - 1
        /\ hist[view].appends = page
        /\ FileLines(out_file) = hist[view].base \o Batches(view, page)
        /\ handle = <<>>
        /\ (~rerun => hist[view].base = <<>>)

C3_Witness ==
    /\ error = "TimeoutException"
    /\ page = 2
    /\ Len(FileLines(out_file)) = 2

\* C4: inside the loop the page counter is 1 plus the number of confirmed
\* advances of the view; each page is fetched and appended once; the loop is left
\* by the first lookup that finds no next control, after which the view's
\* fetches, appends and lookups all equal its last page number.
C4_PageCounter ==
    /\ InLoop =>
          /\ page = 1 + hist[view].advances
          /\ hist[view].fetches = (IF pc = "fetch" THEN page - 1 ELSE page)
          /\ hist[view].appends = (IF pc \in {"fetch", "write"} THEN page - 1 ELSE page)
          /\ hist[view].queries = (IF pc = "wait" THEN page ELSE page - 1)
          /\ ~hist[view].exhausted
    /\ pc = "upload" => hist[view].exhausted
    /\ \A v \in Views :
          hist[v].exhausted =>
              /\ hist[v].fetches = hist[v].advances + 1
              /\ hist[v].appends = hist[v].advances + 1
              /\ hist[v].queries = hist[v].advances + 1
              /\ (v = view => page = hist[v].queries)

C4_Witness ==
    /\ pc = "upload"
    /\ page = 3
    /\ hist[view].advances = 2

Suffix == <<".", "j", "s", "o", "n", "l", ".", "g", "z">>

\* C5 as stated: start 01.01.2020, end 05.01.2020 and view "general" give
\* 0101202005012020-general.jsonl.gz.
C5_NameAsStated ==
    (pc = "format" /\ out_file # <<>> /\ start_date = D0101 /\ end_date = D0501
        /\ view = General) =>
        out_file = <<"0", "1", "0", "1", "2", "0", "2", "0",
                     "0", "5", "0", "1", "2", "0", "2", "0", "-">> \o General \o Suffix

\* C5 amended: the name is the start date without its dots, a hyphen, the end
\* date without its dots, a hyphen, the view and .jsonl.gz; start 01.01.2020, end
\* 05.01.2020 and view "general" give 01012020-05012020-general.jsonl.gz.
C5_ArtifactName ==
    (pc = "format" /\ out_file # <<>>) =>
        /\ (start_date = D0101 /\ end_date = D0501 /\ view = General) =>
              out_file = <<"0", "1", "0", "1", "2", "0", "2", "0", "-",
                           "0", "5", "0", "1", "2", "0", "2", "0", "-">> \o General \o Suffix
        /\ Len(out_file) = (Len(start_date) - 2) + 1 + (Len(end_date) - 2) + 1
                              + Len(view) + Len(Suffix)
        /\ \A i \in 1..(Len(out_file) - Len(Suffix)) : out_file[i] # "."
        /\ SubSeq(out_file, Len(out_file) - Len(Suffix) - Len(view),
                  Len(out_file)) = <<"-">> \o view \o Suffix
        /\ \A i \in 1..8 : IsDigit(out_file[i]) /\ IsDigit(out_file[9 + i])
        /\ out_file[9] = "-"

C5_Witness ==
    /\ pc = "format" /\ out_file # <<>>
    /\ start_date = D0101 /\ end_date = D0501 /\ view = General

\* C6: for a well-formed table parse_table returns, without an error, one record
\* per data row, in row order, each with the header texts as its keys and the
\* row's cell texts as its values; for a header-only table it returns the empty
\* sequence.
C6_WellFormedParse ==
    (pc = "parse_table" /\ data # NoResult /\ WellFormed(content)) =>
        /\ data.err = "none"
        /\ Len(data.data) = Len(content.rows) - 1
        /\ \A i \in 1..Len(data.data) :
              /\ DOMAIN data.data[i] = HeaderKeys(content)
              /\ \A k \in HeaderKeys(content) :
                    data.data[i][k] \in
                        {Strip(content.rows[i + 1][j].text) :
                            j \in {m \in 1..Len(content.rows[1]) :
                                      Strip(content.rows[1][m].text) = k}}
        /\ (Len(content.rows) = 1 => data.data = <<>>)

C6_Witness ==
    /\ pc = "parse_table" /\ data # NoResult /\ WellFormed(content)
    /\ Len(content.rows) = 3
    /\ Len(content.rows[1]) = 2
    /\ content.rows[2] # content.rows[3]
    /\ Cardinality(HeaderKeys(content)) = 2
    /\ Len(data.data) = 2

\* C7: when some data row has fewer or more cells than the header has columns,
\* parse_table raises a parse error and returns no record.
C7_MismatchIsError ==
    (pc = "parse_table" /\ data # NoResult /\ Mismatched(content)) => data.err # "none"

\* C8: for correctly formatted dates the run ends in the range error exactly
\* when start is a later calendar date than end, and then nothing was started;
\* every run that goes on has start <= end as calendar dates.
C8_RangeError ==
    (pc # "start" /\ Strptime(start_date) /\ Strptime(end_date)) =>
        /\ (error = "AssertionError") <=> Later(DateOf(start_date), DateOf(end_date))
        /\ error = "AssertionError" => (~session /\ hist = ZeroHist /\ (~rerun => ~out_dir))

\* C9 as stated: after two complete runs over the same N-page view the artifact
\* holds N batches.
C9_RerunOverwrites ==
    \A v \in Views :
        (rerun /\ hist[v].exhausted /\ Len(hist[v].base) = numPages[v]) =>
            Len(FileLines(ArtifactOf(v))) = numPages[v]

\* C9 amended: a second run writes to the same artifact names as the first and
\* appends to what the first left: after two complete runs over the same N-page
\* view the artifact holds 2N batches, the N of the first run followed by the N
\* of the second.
C9_RerunAppends ==
    /\ pc # "start" => DOMAIN files \subseteq {ArtifactOf(v) : v \in Views}
    /\ \A v \in Views :
          (rerun /\ hist[v].exhausted) =>
              /\ FileLines(ArtifactOf(v)) = hist[v].base \o Batches(v, numPages[v])
              /\ Len(hist[v].base) = numPages[v] =>
                    Len(FileLines(ArtifactOf(v))) = 2 * numPages[v]

C9_Witness ==
    \E v \in Views :
        /\ rerun /\ hist[v].exhausted /\ pc = "done"
        /\ numPages[v] = 2
        /\ hist[v].base = Batches(v, 2)
        /\ Len(FileLines(ArtifactOf(v))) = 4

\* C10: the no-data check and every later step of the run happen only once the
\* results of the submitted range are rendered.
C10_ResultsLoadedFirst ==
    (pc \in {"views", "fetch", "write", "close", "next", "wait", "upload", "done"}) => loaded

\* C11: the artifact of a view is uploaded at most once per run, only after the
\* view's loop has ended at a page without next control, with every batch of the
\* view appended and the file closed: the object stored is the complete artifact.
\* No upload of a view happens while its loop runs, and a run that ends after
\* the last view has uploaded every view's artifact exactly once.
C11_UploadOnce ==
    /\ \A v \in Views :
          /\ hist[v].uploads <= 1
          /\ hist[v].uploads = 1 =>
                /\ hist[v].exhausted
                /\ hist[v].appends = numPages[v]
                /\ ArtifactOf(v) \in DOMAIN s3
                /\ s3[ArtifactOf(v)] = hist[v].base \o Batches(v, numPages[v])
                /\ s3[ArtifactOf(v)] = FileLines(ArtifactOf(v))
                /\ handle # ArtifactOf(v)
    /\ InLoop => hist[view].uploads = 0
    /\ (pc = "done" /\ index > Len(TAB_VIEWS)) => \A v \in Views : hist[v].uploads = 1

C11_Witness ==
    /\ pc = "done"
    /\ \A v \in Views : hist[v].uploads = 1 /\ numPages[v] >= 2

\* The number of data rows on pages 1..n of view v.
RECURSIVE TotalRows(_, _)
TotalRows(v, n) ==
    IF n = 0 THEN 0
    ELSE TotalRows(v, n - 1) + Len(PageContent(v, n).rows) - 1

\* The lines this run has appended to the artifact of view v.
Appended(v) ==
    IF hist[v].selects = 0 THEN <<>>
    ELSE SubSeq(FileLines(ArtifactOf(v)), Len(hist[v].base) + 1,
                Len(FileLines(ArtifactOf(v))))

\* C12 as stated: after a complete crawl of a view the run has appended as many
\* lines as the view's pages hold data rows, every line being one Row.
C12_LinePerRow ==
    \A v \in Views :
        hist[v].exhausted =>
            /\ Len(Appended(v)) = TotalRows(v, numPages[v])
            /\ \A i \in 1..Len(Appended(v)) :
                  DOMAIN Appended(v)[i] = HeaderKeys(PageContent(v, 1))

\* C12 amended: every batch is written as one line, an object whose only key is
\* the view and whose value is the list of the page's Rows, each keyed by the
\* column headers: after a complete crawl the run has appended as many lines as
\* the view has pages, and the Rows inside them number the data rows of all pages.
C12_LinePerPage ==
    \A v \in Views :
        hist[v].exhausted =>
            /\ Len(Appended(v)) = numPages[v]
            /\ \A k \in 1..Len(Appended(v)) :
                  /\ DOMAIN Appended(v)[k] = {v}
                  /\ Len(Appended(v)[k][v]) = Len(PageContent(v, k).rows) - 1
                  /\ \A i \in 1..Len(Appended(v)[k][v]) :
                        DOMAIN Appended(v)[k][v][i] = HeaderKeys(PageContent(v, k))
            /\ TotalRows(v, numPages[v]) = 2 * Len(Appended(v))

C12_Witness ==
    \E v \in Views :
        /\ hist[v].exhausted
        /\ numPages[v] = 3
        /\ Len(Appended(v)) = 3
        /\ TotalRows(v, 3) = 6

\* a is a prefix of b
IsPrefix(a, b) == Len(a) <= Len(b) /\ SubSeq(b, 1, Len(a)) = a

\* C13: every step of a run, failing or not, leaves every artifact in place with
\* its earlier contents as a prefix of its new contents, and once the loop of a
\* view has ended its artifact is not modified again in that run.
C13_Monotonic ==
    [][ /\ \A f \in DOMAIN files :
              f \in DOMAIN files' /\ IsPrefix(files[f], files'[f])
        /\ \A v \in Views :
              (hist[v].exhausted /\ hist'[v].exhausted) =>
                  /\ ArtifactOf(v) \in DOMAIN files
                  /\ files'[ArtifactOf(v)] = files[ArtifactOf(v)]
      ]_vars

C13_Witness ==
    /\ pc = "close"
    /\ view = TAB_VIEWS[2]
    /\ page = 2
    /\ hist[TAB_VIEWS[1]].exhausted
    /\ Len(FileLines(ArtifactOf(TAB_VIEWS[1]))) >= 2
    /\ Len(FileLines(out_file)) >= 2

\* C14: a failed upload ends the run in the error state with the exception of
\* the upload; the step that fails changes neither the out directory nor the
\* bucket, so the artifact is in place and holds what it held before the upload
\* was attempted: all the batches of the view.
C14_UploadFailure ==
    /\ [](error = "S3UploadFailedError" =>
            /\ pc = "error"
            /\ ~session
            /\ out_file \in DOMAIN files
            /\ FileLines(out_file) = hist[view].base \o Batches(view, numPages[view])
            /\ hist[view].uploads = 0)
    /\ [][(pc = "upload" /\ error' # "none") =>
            (error' = "S3UploadFailedError" /\ pc' = "error" /\ files' = files /\ s3' = s3)]_vars

C14_Witness ==
    /\ error = "S3UploadFailedError"
    /\ view = TAB_VIEWS[2]
    /\ numPages[view] = 2
    /\ Len(FileLines(out_file)) >= 2

\* C15: a view is selected (once) before any of its content is fetched; within
\* the view the steps cycle in the order fetch and parse, append, look for the
\* next control, advance; and whenever the advance from page k has been
\* triggered, the batch of page k is the last line of the artifact and the file
\* is closed.
C15_StepOrder ==
    /\ \A v \in Views :
          /\ hist[v].selects <= 1
          /\ hist[v].fetches > 0 => hist[v].selects = 1
          /\ hist[v].advances <= hist[v].queries
          /\ hist[v].queries <= hist[v].appends
          /\ hist[v].appends <= hist[v].fetches
          /\ hist[v].fetches <= hist[v].advances + 1
    /\ (pc = "wait" \/ clicked # <<>>) =>
          /\ clicked \in {<<>>, view}
          /\ hist[view].appends = page
          /\ handle = <<>>
          /\ Len(Appended(view)) = page
          /\ Appended(view)[page] = JsonLine(view, parse_table(PageContent(view, page)).data)

C15_Witness ==
    /\ pc = "wait"
    /\ clicked = view
    /\ page = 2
    /\ view = TAB_VIEWS[2]

\* C16: distinct views have distinct artifact names; the page counter of a view
\* is 1 at its first fetch whatever the earlier view's page count was; every line
\* of a view's artifact is a batch of that view; and a step taken while a view is
\* crawled changes no file but that view's artifact.
C16_ViewsIsolated ==
    /\ [](/\ \A u, v \in Views : u # v => ArtifactOf(u) # ArtifactOf(v)
          /\ InLoop => out_file = ArtifactOf(view)
          /\ (pc = "fetch" /\ hist[view].fetches = 0) => (page = 1 /\ shown[view] = 1)
          /\ \A v \in Views :
                \A i \in 1..Len(FileLines(ArtifactOf(v))) :
                    DOMAIN FileLines(ArtifactOf(v))[i] = {v})
    /\ [][InLoop =>
            /\ DOMAIN files' \subseteq DOMAIN files \cup {out_file}
            /\ \A f \in DOMAIN files \ {out_file} :
                  f \in DOMAIN files' /\ files'[f] = files[f]]_vars

C16_Witness ==
    /\ pc = "write"
    /\ view = TAB_VIEWS[2]
    /\ page = 1
    /\ numPages[TAB_VIEWS[1]] = 3
    /\ Len(FileLines(ArtifactOf(TAB_VIEWS[1]))) = 3

\* C17: the wait after the click is not satisfied while the label still shows
\* the page the click was made on (for every page number up to MaxLabel the text
\* of p does not contain the text of p+1); whenever the script fetches, appends
\* or looks for the next control, the view shows the page the counter names; and
\* the lines a run has appended to a view's artifact are the batches of the
\* view's pages 1, 2, ... in order, none twice and none skipped.
C17_PageSequence ==
    /\ \A p \in 1..MaxLabel : ~Contains(Str(p), Str(p + 1))
    /\ (pc = "wait" /\ shown[view] = page) => ~NextPageShown
    /\ pc \in {"fetch", "write", "close", "next"} => shown[view] = page
    /\ pc = "write" => parsed = parse_table(PageContent(view, page)).data
    /\ \A v \in Views :
          /\ Appended(v) = Batches(v, hist[v].appends)
          /\ hist[v].exhausted => hist[v].appends = numPages[v]

C17_Witness ==
    /\ pc = "write"
    /\ page = 3
    /\ shown[view] = 3
    /\ Len(Appended(view)) = 2
    /\ Appended(view)[1] # Appended(view)[2]

\* C18: an exception raised while a view is crawled or uploaded ends the run
\* there: the session is closed and no step of the run follows; the failing
\* view's artifact has not been uploaded in this run; no later view has been
\* selected, crawled or uploaded; and the views before it are complete, their
\* artifacts and uploaded objects as they were when their loops ended.
C18_FailureAborts ==
    /\ [](/\ error # "none" => pc = "error"
          /\ (pc = "error" /\ error \notin {"ValueError", "AssertionError"}) =>
                /\ ~session
                /\ view = TAB_VIEWS[index]
                /\ hist[view].uploads = 0
                /\ \A i \in 1..Len(TAB_VIEWS) :
                      /\ i < index =>
                            /\ hist[TAB_VIEWS[i]].exhausted
                            /\ hist[TAB_VIEWS[i]].uploads = 1
                            /\ FileLines(ArtifactOf(TAB_VIEWS[i]))
                                  = hist[TAB_VIEWS[i]].base
                                       \o Batches(TAB_VIEWS[i], numPages[TAB_VIEWS[i]])
                            /\ s3[ArtifactOf(TAB_VIEWS[i])] = FileLines(ArtifactOf(TAB_VIEWS[i]))
                      /\ i > index =>
                            /\ hist[TAB_VIEWS[i]] = ZeroHist[TAB_VIEWS[i]]
                            /\ ~rerun => ArtifactOf(TAB_VIEWS[i]) \notin DOMAIN files \cup DOMAIN s3)
    /\ [][pc = "error" => (pc' = "start" /\ rerun' /\ files' = files /\ s3' = s3)]_vars

C18_Witness ==
    /\ pc = "error"
    /\ error = "AttributeError"
    /\ index = 2
    /\ page = 2
    /\ hist[TAB_VIEWS[1]].uploads = 1

\* C19: every started run ends, normally or in an exception; a wait for the next
\* page ends with the next page confirmed or with TimeoutException, never by
\* hanging; a run in which nothing fails ends normally, and a run that ends
\* normally after the loop over the views has crawled every view to its last
\* page and uploaded it; a timeout never ends in a normal return.
C19_Terminates ==
    /\ (pc = "start") ~> (pc \in {"done", "error"})
    /\ (pc = "wait") ~> (pc = "fetch" \/ error = "TimeoutException")
    /\ ([](error = "none" /\ ~rerun)) => <>(pc = "done")
    /\ [](pc = "done" => error = "none")
    /\ []((pc = "done" /\ index > Len(TAB_VIEWS)) =>
            \A v \in Views : hist[v].exhausted /\ hist[v].uploads = 1)
    /\ [](error = "TimeoutException" => pc = "error")

C19_Witness ==
    /\ pc = "done"
    /\ index > Len(TAB_VIEWS)
    /\ \A v \in Views : numPages[v] = 3 /\ hist[v].exhausted

====
